---------------------------- MODULE Spec2Model ----------------------------
(***************************************************************************)
(* A model of shape.go of excelize: parseShapeOptions, AddShape,           *)
(* addDrawingShape and setShapeRef, together with the collaborators they   *)
(* call (worksheet descriptor, relationship registry, content types,       *)
(* drawing store, cell and pixel resolvers).                               *)
(*                                                                         *)
(* Strings the code inspects character by character (colors, cell          *)
(* references) are sequences of one-character strings.  A float64 scale is *)
(* a number of ScaleDen-ths.  A pointer is a sequence: None when nil, and  *)
(* Some(v) when it points to v.  A nil error is Nil.                       *)
(***************************************************************************)
EXTENDS Integers, Sequences, FiniteSets, TLC

VARIABLES
    wsDrawing,      \* sheet -> ws.Drawing.RID, or 0 when ws.Drawing == nil
    rels,           \* sheet -> the relationships of the sheet's .rels part
    nameSpace,      \* sheets whose XML declares the relationship namespace
    pkg,            \* f.Pkg: drawing part path -> bytes not yet parsed
    Drawings,       \* f.Drawings: drawing part path -> sequence of anchors
    contentTypes,   \* drawing part indexes with a content-type entry
    shape,          \* the caller's Shape object (None: none built yet)
    calls,          \* number of calls started so far
    lastCall,       \* arguments and result of the latest finished call
    firstSeen,      \* sheet -> its part's anchors before its first success
    added,          \* sheet -> anchors appended by its successful calls
    serialized,     \* whether the caller serializes calls per sheet
    pc,             \* call slot -> position in AddShape
    loc,            \* call slot -> the call's arguments and locals
    color,          \* font color under test
    run             \* the paragraph built for it

docVars == <<wsDrawing, rels, nameSpace, pkg, Drawings, contentTypes>>
seqVars == <<shape, calls, lastCall, firstSeen, added>>
concVars == <<serialized, pc, loc>>
runVars == <<color, run>>
vars == <<docVars, seqVars, concVars, runVars>>

Nil == "nil"
None == <<>>
Some(v) == <<v>>

---------------------------------------------------------------------------
(* Bounds of the model *)

MaxCalls == 3        \* AddShape calls in a sequential run
MaxPre == 1          \* anchors in a drawing part of a re-opened document
NumProcs == 2        \* concurrent AddShape calls
MaxColorLen == 7     \* length of a font color string
MaxResolve == 2      \* applications of parseShapeOptions to one object
ScaleDen == 2        \* a scale is a number of ScaleDen-ths

---------------------------------------------------------------------------
(* Constants of the package the file uses *)

defaultShapeSize == 160
defaultPictureScale == 1 * ScaleDen
defaultShapeLineWidth == 1
EMU == 9525
EMUPerPoint == 12700
defaultColWidthPixels == 64
defaultRowHeightPixels == 20

ErrParameterInvalid == "ErrParameterInvalid"
ErrSheetNotExist == "ErrSheetNotExist"
ErrInvalidCell == "ErrInvalidCell"
ErrDrawingParse == "ErrDrawingParse"
ErrDefaultFont == "ErrDefaultFont"

Sheets == {"Sheet1", "Sheet2"}
SheetArgs == Sheets \cup {"Sheet9"}

---------------------------------------------------------------------------
(* strings *)

Lower == <<"a", "b", "c", "d", "e", "f", "g">>
Upper == <<"A", "B", "C", "D", "E", "F", "G">>
Letters == {Upper[i] : i \in DOMAIN Upper}
Digits == <<"0", "1", "2", "3", "4", "5", "6", "7", "8", "9">>
HexChars == {Digits[i] : i \in DOMAIN Digits} \cup {Upper[i] : i \in 1..6}

IndexOf(s, c) == IF \E i \in DOMAIN s : s[i] = c THEN CHOOSE i \in DOMAIN s : s[i] = c ELSE 0

\* strings.ToUpper
ToUpper(s) == [i \in DOMAIN s |-> IF IndexOf(Lower, s[i]) # 0 THEN Upper[IndexOf(Lower, s[i])] ELSE s[i]]

\* strings.ReplaceAll(s, "#", "")
StripHash(s) == SelectSeq(s, LAMBDA c : c # "#")

\* strings.ReplaceAll(strings.ToUpper(color), "#", "") of lines 447 and 483
srgbClrOf(c) == StripHash(ToUpper(c))

---------------------------------------------------------------------------
(* Shape descriptions *)

NoFont == [Bold |-> FALSE, Italic |-> FALSE, Underline |-> "", Family |-> "", Size |-> 0, Color |-> <<>>]

ZeroShape ==
    [Type |-> "rect", Macro |-> "", Width |-> 0, Height |-> 0,
     Format |-> [OffsetX |-> 0, OffsetY |-> 0, ScaleX |-> 0, ScaleY |-> 0,
                 Positioning |-> "", PrintObject |-> None, Locked |-> None],
     Line |-> [Color |-> <<>>, Width |-> None],
     Fill |-> [Color |-> <<>>],
     Paragraph |-> <<>>]

TextBox ==
    [Type |-> "rect", Macro |-> "", Width |-> 180, Height |-> 40,
     Format |-> [OffsetX |-> 0, OffsetY |-> 0, ScaleX |-> ScaleDen, ScaleY |-> ScaleDen,
                 Positioning |-> "twoCell", PrintObject |-> Some(TRUE), Locked |-> Some(FALSE)],
     Line |-> [Color |-> <<"4", "2", "8", "6", "F", "4">>, Width |-> Some(2)],
     Fill |-> [Color |-> << <<"#", "8", "e", "b", "9", "f", "f">> >>],
     Paragraph |-> << [Text |-> "Rectangle Shape",
                       Font |-> Some([Bold |-> TRUE, Italic |-> TRUE, Underline |-> "sng",
                                       Family |-> "Times New Roman", Size |-> 18,
                                       Color |-> <<"#", "1", "2", "a", "b", "3", "4">>])] >>]

OffsetShape ==
    [Type |-> "ellipse", Macro |-> "M1", Width |-> 50, Height |-> 30,
     Format |-> [OffsetX |-> 70, OffsetY |-> 25, ScaleX |-> (3 * ScaleDen) \div 2, ScaleY |-> 0,
                 Positioning |-> "oneCell", PrintObject |-> Some(FALSE), Locked |-> Some(TRUE)],
     Line |-> [Color |-> <<>>, Width |-> Some(1)],
     Fill |-> [Color |-> << <<"1">>, <<"2">> >>],
     Paragraph |-> << [Text |-> "", Font |-> None],
                      [Text |-> "x", Font |-> Some([NoFont EXCEPT !.Underline = "squiggle",
                                                                  !.Color = <<"1", "2", "A", "B">>])] >>]

Descs == {ZeroShape, TextBox, OffsetShape}

---------------------------------------------------------------------------
(* parseShapeOptions, lines 21-47.  opts is a pointer: the object returned *)
(* is the caller's object, with its unset fields assigned.                 *)

parseShapeOptionsNoHeight(opts) ==
    IF opts = None THEN [opts |-> None, err |-> ErrParameterInvalid]
    ELSE [opts |-> [opts[1] EXCEPT
                      !.Width = IF @ = 0 THEN defaultShapeSize ELSE @,
                      !.Format.PrintObject = IF @ = None THEN Some(TRUE) ELSE @,
                      !.Format.Locked = IF @ = None THEN Some(FALSE) ELSE @,
                      !.Format.ScaleX = IF @ = 0 THEN defaultPictureScale ELSE @,
                      !.Format.ScaleY = IF @ = 0 THEN defaultPictureScale ELSE @,
                      !.Line.Width = IF @ = None THEN Some(defaultShapeLineWidth) ELSE @],
          err |-> Nil]

parseShapeOptions(opts) ==
    IF opts = None THEN [opts |-> None, err |-> ErrParameterInvalid]
    ELSE [opts |-> [opts[1] EXCEPT
                      !.Width = IF @ = 0 THEN defaultShapeSize ELSE @,
                      !.Height = IF @ = 0 THEN defaultShapeSize ELSE @,
                      !.Format.PrintObject = IF @ = None THEN Some(TRUE) ELSE @,
                      !.Format.Locked = IF @ = None THEN Some(FALSE) ELSE @,
                      !.Format.ScaleX = IF @ = 0 THEN defaultPictureScale ELSE @,
                      !.Format.ScaleY = IF @ = 0 THEN defaultPictureScale ELSE @,
                      !.Line.Width = IF @ = None THEN Some(defaultShapeLineWidth) ELSE @],
          err |-> Nil]

---------------------------------------------------------------------------
(* setShapeRef, lines 469-485 *)

setShapeRef(c, i) ==
    IF c = <<>> THEN [Idx |-> 0, ScrgbClr |-> Some(<<0, 0, 0>>), SrgbClr |-> None]
    ELSE [Idx |-> i, ScrgbClr |-> None, SrgbClr |-> Some(srgbClrOf(c))]

---------------------------------------------------------------------------
(* Collaborators of addDrawingShape *)

supportedDrawingUnderlineTypes ==
    {"none", "words", "sng", "dbl", "heavy", "dotted", "dottedHeavy", "dash",
     "dashHeavy", "dashLong", "dashLongHeavy", "dotDash", "dotDashHeavy",
     "dotDotDash", "dotDotDashHeavy", "wavy", "wavyHeavy", "wavyDbl"}

RECURSIVE LetterCount(_)
LetterCount(s) == IF s # <<>> /\ Head(s) \in Letters THEN 1 + LetterCount(Tail(s)) ELSE 0

RECURSIVE ColNum(_)
ColNum(s) == IF s = <<>> THEN 0 ELSE 26 * ColNum(SubSeq(s, 1, Len(s) - 1)) + IndexOf(Upper, s[Len(s)])

RECURSIVE RowNum(_)
RowNum(s) == IF s = <<>> THEN 0 ELSE 10 * RowNum(SubSeq(s, 1, Len(s) - 1)) + (IndexOf(Digits, s[Len(s)]) - 1)

\* CellNameToCoordinates: letters then digits, row at least 1; zero-based result
CellNameToCoordinates(cell) ==
    LET n == LetterCount(cell)
        rowPart == SubSeq(cell, n + 1, Len(cell))
        ok == /\ n >= 1
              /\ rowPart # <<>>
              /\ \A i \in DOMAIN rowPart : IndexOf(Digits, rowPart[i]) # 0
              /\ RowNum(rowPart) >= 1
    IN IF ok THEN [col |-> ColNum(SubSeq(cell, 1, n)) - 1, row |-> RowNum(rowPart) - 1, err |-> Nil]
       ELSE [col |-> 0, row |-> 0, err |-> ErrInvalidCell]

\* positionObjectPixels on a sheet whose columns and rows have the default size
positionObjectPixels(sheet, col, row, x1, y1, width, height) ==
    LET colStart == col + (x1 \div defaultColWidthPixels)
        rowStart == row + (y1 \div defaultRowHeightPixels)
        w == width + (x1 % defaultColWidthPixels)
        h == height + (y1 % defaultRowHeightPixels)
    IN [colStart |-> colStart, rowStart |-> rowStart,
        colEnd |-> colStart + (w \div defaultColWidthPixels),
        rowEnd |-> rowStart + (h \div defaultRowHeightPixels),
        x2 |-> w % defaultColWidthPixels, y2 |-> h % defaultRowHeightPixels]

\* f.ptToEMUs
ptToEMUs(pt) == pt * EMUPerPoint

\* f.GetDefaultFont when it succeeds
defaultFontName == "Calibri"

---------------------------------------------------------------------------
(* addDrawingShape, lines 324-465: the parts that compute values *)

\* lines 329-330: int(float64(opts.Width) * opts.Format.ScaleX)
scaledWidth(opts) == (opts.Width * opts.Format.ScaleX) \div ScaleDen
scaledHeight(opts) == (opts.Height * opts.Format.ScaleY) \div ScaleDen

\* lines 338-351
twoCellAnchorNoEMU(opts, pos) ==
    [EditAs |-> opts.Format.Positioning,
     From |-> [Col |-> pos.colStart, ColOff |-> opts.Format.OffsetX * EMU,
               Row |-> pos.rowStart, RowOff |-> opts.Format.OffsetY * EMU],
     To |-> [Col |-> pos.colEnd, ColOff |-> pos.x2,
             Row |-> pos.rowEnd, RowOff |-> pos.y2 * EMU]]

twoCellAnchor(opts, pos) ==
    [EditAs |-> opts.Format.Positioning,
     From |-> [Col |-> pos.colStart, ColOff |-> opts.Format.OffsetX * EMU,
               Row |-> pos.rowStart, RowOff |-> opts.Format.OffsetY * EMU],
     To |-> [Col |-> pos.colEnd, ColOff |-> pos.x2 * EMU,
             Row |-> pos.rowEnd, RowOff |-> pos.y2 * EMU]]

\* lines 352-397
shapeOf(opts, cNvPrID) ==
    [Macro |-> opts.Macro,
     ID |-> cNvPrID,
     Name |-> <<"Shape ", cNvPrID>>,
     Prst |-> opts.Type,
     LnRef |-> setShapeRef(opts.Line.Color, 2),
     FillRef |-> setShapeRef(IF Len(opts.Fill.Color) = 1 THEN opts.Fill.Color[1] ELSE <<>>, 1),
     EffectRef |-> setShapeRef(<<>>, 0),
     Ln |-> IF opts.Line.Width[1] # 1 THEN Some(ptToEMUs(opts.Line.Width[1])) ELSE None]

\* lines 402-416: an empty paragraph list is replaced in the caller's object
withParagraph(opts, defaultFont) ==
    IF Len(opts.Paragraph) < 1
    THEN [opts EXCEPT !.Paragraph =
            << [Text |-> " ",
                Font |-> Some([Bold |-> FALSE, Italic |-> FALSE, Underline |-> "none",
                               Family |-> defaultFont, Size |-> 11,
                               Color |-> <<"0", "0", "0", "0", "0", "0">>])] >>]
    ELSE opts

\* lines 447-454
solidFillOf(c) == IF Len(srgbClrOf(c)) = 6 THEN Some(srgbClrOf(c)) ELSE None

\* lines 417-456, one iteration
paragraphOf(p) ==
    LET font == IF p.Font # None THEN p.Font[1] ELSE NoFont
    IN [I |-> font.Italic, B |-> font.Bold,
        U |-> IF font.Underline \in supportedDrawingUnderlineTypes THEN font.Underline ELSE "none",
        Sz |-> font.Size * 100,
        Latin |-> font.Family,
        T |-> IF p.Text = "" THEN " " ELSE p.Text,
        SolidFill |-> solidFillOf(font.Color)]

---------------------------------------------------------------------------
(* The document: worksheet descriptors, relationships, drawing parts *)

drawingXMLOf(id) == <<"xl/drawings/drawing", id, ".xml">>
relTargetOf(id) == <<"../drawings/drawing", id, ".xml">>

\* strconv.Atoi(TrimSuffix(TrimPrefix(target, "../drawings/drawing"), ".xml")), line 306
drawingIDOf(target) ==
    IF Len(target) = 3 /\ target[1] = "../drawings/drawing" /\ target[3] = ".xml" THEN target[2] ELSE 0

\* strings.ReplaceAll(target, "..", "xl"), line 307
xlPathOf(target) ==
    IF target = <<>> THEN <<>>
    ELSE [target EXCEPT ![1] = IF @ = "../drawings/drawing" THEN "xl/drawings/drawing" ELSE @]

\* f.countDrawings: the drawing parts of the package and of the store
countDrawings == Cardinality(DOMAIN pkg \cup DOMAIN Drawings)

\* f.getSheetRelationshipsTargetByID
getSheetRelationshipsTargetByID(sheet, rID) ==
    IF rID \in DOMAIN rels[sheet] THEN rels[sheet][rID].Target ELSE <<>>

\* f.addRels: the relationship is appended, its position is its id
addRels(sheet, relType, target) == [rels EXCEPT ![sheet] = Append(@, [Type |-> relType, Target |-> target])]

\* the bytes of a part of the package: well-formed XML holding anchors, or not
Malformed == [wellFormed |-> FALSE, anchors |-> <<>>]
Bytes(anchors) == [wellFormed |-> TRUE, anchors |-> anchors]

\* f.drawingParser: the parsed part and the next shape identity; the store is only read
drawingParser(path) ==
    IF path \in DOMAIN Drawings
    THEN [content |-> Drawings[path], cNvPrID |-> Len(Drawings[path]) + 1, err |-> Nil]
    ELSE IF path \in DOMAIN pkg
    THEN IF ~pkg[path].wellFormed
         THEN [content |-> <<>>, cNvPrID |-> 0, err |-> ErrDrawingParse]
         ELSE [content |-> pkg[path].anchors, cNvPrID |-> Len(pkg[path].anchors) + 1, err |-> Nil]
    ELSE [content |-> <<>>, cNvPrID |-> 1, err |-> Nil]

\* The anchors a sheet's drawing part holds, parsed or not
partOf(path) ==
    IF path \in DOMAIN Drawings THEN Drawings[path]
    ELSE IF path \in DOMAIN pkg THEN pkg[path].anchors
    ELSE <<>>

---------------------------------------------------------------------------
(* addDrawingShape, lines 324-465 *)

\* lines 338-461: the anchor with its shape and client data
anchorOf(opts, pos, cNvPrID) ==
    [Cell |-> twoCellAnchor(opts, pos),
     Sp |-> shapeOf(opts, cNvPrID),
     P |-> [i \in DOMAIN opts.Paragraph |-> paragraphOf(opts.Paragraph[i])],
     ClientData |-> [FLocksWithSheet |-> opts.Format.Locked[1],
                     FPrintsWithSheet |-> opts.Format.PrintObject[1]]]

\* line 462
commitReplace(content, anchor) == <<anchor>>

commit(content, anchor) == Append(content, anchor)

\* line 463: f.Drawings.Store
Store(path, content) == [q \in DOMAIN Drawings \cup {path} |-> IF q = path THEN content ELSE Drawings[q]]

addDrawingShapeEarlyStore(sheet, drawingXML, cell, opts, fontOK) ==
    LET c == CellNameToCoordinates(cell)
        pos == positionObjectPixels(sheet, c.col, c.row, opts.Format.OffsetX, opts.Format.OffsetY,
                                    scaledWidth(opts), scaledHeight(opts))
        parsed == drawingParser(drawingXML)
        opts2 == withParagraph(opts, defaultFontName)
        anchor == anchorOf(opts2, pos, parsed.cNvPrID)
    IN IF c.err # Nil THEN [err |-> c.err, Drawings |-> Drawings, opts |-> opts, anchor |-> None]
       ELSE IF parsed.err # Nil THEN [err |-> parsed.err, Drawings |-> Drawings, opts |-> opts, anchor |-> None]
       ELSE IF ~fontOK THEN [err |-> ErrDefaultFont, Drawings |-> Store(drawingXML, parsed.content),
                             opts |-> opts, anchor |-> None]
       ELSE [err |-> Nil, Drawings |-> Store(drawingXML, commit(parsed.content, anchor)),
             opts |-> opts2, anchor |-> Some(anchor)]

addDrawingShape(sheet, drawingXML, cell, opts, fontOK) ==
    LET c == CellNameToCoordinates(cell)
        pos == positionObjectPixels(sheet, c.col, c.row, opts.Format.OffsetX, opts.Format.OffsetY,
                                    scaledWidth(opts), scaledHeight(opts))
        parsed == drawingParser(drawingXML)
        opts2 == withParagraph(opts, defaultFontName)
        anchor == anchorOf(opts2, pos, parsed.cNvPrID)
    IN IF c.err # Nil THEN [err |-> c.err, Drawings |-> Drawings, opts |-> opts, anchor |-> None]
       ELSE IF parsed.err # Nil THEN [err |-> parsed.err, Drawings |-> Drawings, opts |-> opts, anchor |-> None]
       ELSE IF ~fontOK THEN [err |-> ErrDefaultFont, Drawings |-> Drawings, opts |-> opts, anchor |-> None]
       ELSE [err |-> Nil, Drawings |-> Store(drawingXML, commit(parsed.content, anchor)),
             opts |-> opts2, anchor |-> Some(anchor)]

---------------------------------------------------------------------------
(* AddShape, lines 288-320, run from call to return *)

\* lines 299-307: the relationship target, the part index and the part path
drawingOf(sheet) ==
    IF wsDrawing[sheet] # 0
    THEN LET target == getSheetRelationshipsTargetByID(sheet, wsDrawing[sheet])
         IN [reuse |-> TRUE, target |-> target, drawingID |-> drawingIDOf(target), drawingXML |-> xlPathOf(target)]
    ELSE LET id == countDrawings + 1
         IN [reuse |-> FALSE, target |-> relTargetOf(id), drawingID |-> id, drawingXML |-> drawingXMLOf(id)]

Returned(sheet, cell, given, err, path, anchor) ==
    [sheet |-> sheet, cell |-> cell, given |-> given, err |-> err, drawingXML |-> path, anchor |-> anchor]

AddShape(sheet, cell, opts, fontOK) ==
    LET parsed == parseShapeOptions(opts)
    IN
    /\ calls < MaxCalls
    /\ calls' = calls + 1
    /\ UNCHANGED <<pkg, concVars, runVars>>
    /\ IF parsed.err # Nil
       THEN /\ lastCall' = Returned(sheet, cell, opts, parsed.err, None, None)
            /\ UNCHANGED <<wsDrawing, rels, nameSpace, Drawings, contentTypes, shape, firstSeen, added>>
       ELSE IF sheet \notin Sheets
       THEN /\ lastCall' = Returned(sheet, cell, opts, ErrSheetNotExist, None, None)
            /\ shape' = Some(parsed.opts)
            /\ UNCHANGED <<wsDrawing, rels, nameSpace, Drawings, contentTypes, firstSeen, added>>
       ELSE LET d == drawingOf(sheet)
                res == addDrawingShape(sheet, d.drawingXML, cell, parsed.opts, fontOK)
            IN /\ IF d.reuse
                  THEN UNCHANGED <<rels, wsDrawing, nameSpace>>
                  ELSE /\ rels' = addRels(sheet, "drawing", d.target)
                       /\ wsDrawing' = [wsDrawing EXCEPT ![sheet] = Len(rels[sheet]) + 1]
                       /\ nameSpace' = nameSpace \cup {sheet}
               /\ Drawings' = res.Drawings
               /\ shape' = Some(res.opts)
               /\ contentTypes' = IF res.err = Nil THEN contentTypes \cup {d.drawingID} ELSE contentTypes
               /\ lastCall' = Returned(sheet, cell, opts, res.err, d.drawingXML, res.anchor)
               /\ firstSeen' = IF res.err = Nil /\ firstSeen[sheet] = None
                               THEN [firstSeen EXCEPT ![sheet] = Some(partOf(d.drawingXML))]
                               ELSE firstSeen
               /\ added' = IF res.err = Nil THEN [added EXCEPT ![sheet] = Append(@, res.anchor[1])] ELSE added

---------------------------------------------------------------------------
(* Documents a run starts from *)

G6 == <<"G", "6">>
BadCell == <<"6", "G">>
Cells == {G6, BadCell}

\* an anchor already in a part of a re-opened document (a picture, a chart)
PreAnchor(i) ==
    LET opts == [parseShapeOptions(Some(TextBox)).opts EXCEPT !.Type = "picture"]
    IN anchorOf(opts, positionObjectPixels("Sheet1", i, i, 0, 0, opts.Width, opts.Height), i)

NewDoc ==
    [wsDrawing |-> [s \in Sheets |-> 0], rels |-> [s \in Sheets |-> <<>>], nameSpace |-> {},
     pkg |-> <<>>, contentTypes |-> {}]

ReopenedDoc(bytes) ==
    [wsDrawing |-> [s \in Sheets |-> IF s = "Sheet1" THEN 1 ELSE 0],
     rels |-> [s \in Sheets |-> IF s = "Sheet1" THEN <<[Type |-> "drawing", Target |-> relTargetOf(1)]>> ELSE <<>>],
     nameSpace |-> {"Sheet1"},
     pkg |-> [q \in {drawingXMLOf(1)} |-> bytes],
     contentTypes |-> {1}]

InitDocs ==
    {NewDoc, ReopenedDoc(Malformed)} \cup {ReopenedDoc(Bytes([i \in 1..k |-> PreAnchor(i)])) : k \in 0..MaxPre}

InitDoc(doc) ==
    /\ wsDrawing = doc.wsDrawing
    /\ rels = doc.rels
    /\ nameSpace = doc.nameSpace
    /\ pkg = doc.pkg
    /\ contentTypes = doc.contentTypes
    /\ Drawings = <<>>

NoCall == Returned(Nil, None, None, "no call", None, None)

Init ==
    /\ \E doc \in InitDocs : InitDoc(doc)
    /\ shape = None
    /\ calls = 0
    /\ lastCall = NoCall
    /\ firstSeen = [s \in Sheets |-> None]
    /\ added = [s \in Sheets |-> <<>>]
    /\ serialized = TRUE
    /\ pc = <<>>
    /\ loc = <<>>
    /\ color = <<>>
    /\ run = None

\* the caller passes nil, a description built for the call, or the object of an earlier call
Next ==
    \E sheet \in SheetArgs, cell \in Cells, fontOK \in BOOLEAN :
        \/ AddShape(sheet, cell, None, fontOK)
        \/ \E d \in Descs : AddShape(sheet, cell, Some(d), fontOK)
        \/ shape # None /\ AddShape(sheet, cell, shape, fontOK)

Spec == Init /\ [][Next]_vars

---------------------------------------------------------------------------
(* Properties of sequential runs *)

\* the part a sheet's descriptor points to
sheetTarget(s) == getSheetRelationshipsTargetByID(s, wsDrawing[s])
sheetPart(s) == xlPathOf(sheetTarget(s))
drawingRels(s) == {i \in DOMAIN rels[s] : rels[s][i].Type = "drawing"}
lastAnchor(path) == Drawings[path][Len(Drawings[path])]

\* C1: after k successful calls on a sheet, the sheet references exactly one
\* drawing part, and the part holds the anchors it had before the first of
\* these calls followed by the k new anchors in call order, whose identities
\* are N, N+1, ..., N+k-1 with N one greater than the number of earlier anchors.
C1_AppendsInOrder ==
    \A s \in Sheets : added[s] # <<>> =>
        /\ wsDrawing[s] # 0
        /\ Cardinality(drawingRels(s)) = 1
        /\ partOf(sheetPart(s)) = firstSeen[s][1] \o added[s]
        /\ \A i \in DOMAIN added[s] : added[s][i].Sp.ID = Len(firstSeen[s][1]) + i

C3_DescriptionUnchanged ==
    lastCall.given # None => shape = lastCall.given

\* C8: the anchor appended by a successful call starts at the resolver's
\* start cell with the description's offsets in EMU, ends at the resolver's
\* end cell with the residual pixels in EMU, and carries the description's
\* positioning; with offset 0/0 and scale 1 the end cell is width/height
\* pixels from the origin of the anchor cell, the end offsets the remainders.
C8_AnchorGeometry ==
    lastCall.err = Nil =>
        LET a == lastAnchor(lastCall.drawingXML).Cell
            o == shape[1]
            c == CellNameToCoordinates(lastCall.cell)
            pos == positionObjectPixels(lastCall.sheet, c.col, c.row, o.Format.OffsetX, o.Format.OffsetY,
                                        (o.Width * o.Format.ScaleX) \div ScaleDen,
                                        (o.Height * o.Format.ScaleY) \div ScaleDen)
        IN /\ a.From = [Col |-> pos.colStart, ColOff |-> o.Format.OffsetX * EMU,
                        Row |-> pos.rowStart, RowOff |-> o.Format.OffsetY * EMU]
           /\ a.To = [Col |-> pos.colEnd, ColOff |-> pos.x2 * EMU,
                      Row |-> pos.rowEnd, RowOff |-> pos.y2 * EMU]
           /\ a.EditAs = lastCall.given[1].Format.Positioning
           /\ (o.Format.OffsetX = 0 /\ o.Format.OffsetY = 0
               /\ o.Format.ScaleX = ScaleDen /\ o.Format.ScaleY = ScaleDen) =>
                 /\ a.From = [Col |-> c.col, ColOff |-> 0, Row |-> c.row, RowOff |-> 0]
                 /\ a.To.Col = c.col + (o.Width \div defaultColWidthPixels)
                 /\ a.To.ColOff = (o.Width % defaultColWidthPixels) * EMU
                 /\ a.To.Row = c.row + (o.Height \div defaultRowHeightPixels)
                 /\ a.To.RowOff = (o.Height % defaultRowHeightPixels) * EMU

\* the 180 x 40 text box at G6: two columns and 52 pixels right, two rows down
C8_Witness ==
    /\ lastCall.err = Nil
    /\ lastCall.cell = G6
    /\ lastCall.given = Some(TextBox)
    /\ lastAnchor(lastCall.drawingXML).Cell.To = [Col |-> 8, ColOff |-> 52 * EMU, Row |-> 7, RowOff |-> 0]

\* C9: each sheet references at most one drawing part and no two sheets
\* reference the same drawing part.
C9_PartsNotShared ==
    /\ \A s \in Sheets : Cardinality(drawingRels(s)) <= 1
    /\ \A s, t \in Sheets : (s # t /\ wsDrawing[s] # 0 /\ wsDrawing[t] # 0) => sheetPart(s) # sheetPart(t)

\* C10: a sheet whose descriptor records a drawing relationship points to a
\* drawing part that exists (parsed in the store, or as bytes of the package)
\* and has a content-type entry.
C10_RelationshipResolves ==
    \A s \in Sheets : wsDrawing[s] # 0 =>
        /\ sheetPart(s) \in DOMAIN Drawings \cup DOMAIN pkg
        /\ drawingIDOf(sheetTarget(s)) \in contentTypes

---------------------------------------------------------------------------
(* parseShapeOptions applied to one object, again and again *)

OptionSpace ==
    {[ZeroShape EXCEPT !.Width = w, !.Height = h,
                       !.Format.ScaleX = sx, !.Format.ScaleY = sy,
                       !.Format.PrintObject = po, !.Format.Locked = lk,
                       !.Line.Width = lw, !.Paragraph = par] :
        w \in {0, 180}, h \in {0, 40}, sx \in {0, ScaleDen, ScaleDen + 1}, sy \in {0, ScaleDen},
        po \in {None, Some(TRUE), Some(FALSE)}, lk \in {None, Some(TRUE), Some(FALSE)},
        lw \in {None, Some(0), Some(1), Some(2)}, par \in {<<>>, TextBox.Paragraph}}

InitOptions ==
    /\ InitDoc(NewDoc)
    /\ shape \in {None} \cup {Some(d) : d \in OptionSpace}
    /\ calls = 0
    /\ lastCall = NoCall
    /\ firstSeen = [s \in Sheets |-> None]
    /\ added = [s \in Sheets |-> <<>>]
    /\ serialized = TRUE
    /\ pc = <<>>
    /\ loc = <<>>
    /\ color = <<>>
    /\ run = None

Resolve ==
    LET parsed == parseShapeOptions(shape)
    IN /\ calls < MaxResolve
       /\ calls' = calls + 1
       /\ shape' = IF parsed.err = Nil THEN Some(parsed.opts) ELSE shape
       /\ lastCall' = Returned(Nil, None, shape, parsed.err, None, None)
       /\ UNCHANGED <<docVars, firstSeen, added, concVars, runVars>>

SpecOptions == InitOptions /\ [][Resolve]_vars

Default(v, zero, d) == IF v = zero THEN d ELSE v

\* C6: resolution gives a zero width or height the default size, a zero
\* scale the default scale, an unset line width the default width, unset
\* print and locked flags true and false, leaves every other value as it
\* was, and changes nothing in a description that is already resolved.
C6_Defaults ==
    (calls >= 1 /\ lastCall.given # None) =>
        LET g == lastCall.given[1]
            r == shape[1]
        IN /\ lastCall.err = Nil
           /\ r.Width = Default(g.Width, 0, defaultShapeSize)
           /\ r.Height = Default(g.Height, 0, defaultShapeSize)
           /\ r.Format.ScaleX = Default(g.Format.ScaleX, 0, defaultPictureScale)
           /\ r.Format.ScaleY = Default(g.Format.ScaleY, 0, defaultPictureScale)
           /\ r.Line.Width = Default(g.Line.Width, None, Some(defaultShapeLineWidth))
           /\ r.Format.PrintObject = Default(g.Format.PrintObject, None, Some(TRUE))
           /\ r.Format.Locked = Default(g.Format.Locked, None, Some(FALSE))
           /\ [r EXCEPT !.Width = 0, !.Height = 0, !.Format = ZeroShape.Format, !.Line = ZeroShape.Line]
                = [g EXCEPT !.Width = 0, !.Height = 0, !.Format = ZeroShape.Format, !.Line = ZeroShape.Line]
           /\ r.Format.OffsetX = g.Format.OffsetX /\ r.Format.OffsetY = g.Format.OffsetY
           /\ r.Format.Positioning = g.Format.Positioning
           /\ r.Line.Color = g.Line.Color
           /\ calls >= 2 => r = g

\* the all-zero description was resolved, and resolved once more
C6_Witness ==
    /\ calls >= 2
    /\ lastCall.given = shape
    /\ shape = Some([ZeroShape EXCEPT !.Width = defaultShapeSize, !.Height = defaultShapeSize,
                                      !.Format.ScaleX = defaultPictureScale,
                                      !.Format.ScaleY = defaultPictureScale,
                                      !.Format.PrintObject = Some(TRUE), !.Format.Locked = Some(FALSE),
                                      !.Line.Width = Some(defaultShapeLineWidth)])

---------------------------------------------------------------------------
(* The paragraph of one text run, for every font color *)

ColorChars == {"#", "1", "a", "g"}

RECURSIVE StringsUpTo(_)
StringsUpTo(n) ==
    IF n = 0 THEN {<<>>}
    ELSE LET shorter == StringsUpTo(n - 1)
         IN shorter \cup {Append(t, c) : t \in shorter, c \in ColorChars}

InitRuns ==
    /\ InitDoc(NewDoc)
    /\ shape = None
    /\ calls = 0
    /\ lastCall = NoCall
    /\ firstSeen = [s \in Sheets |-> None]
    /\ added = [s \in Sheets |-> <<>>]
    /\ serialized = TRUE
    /\ pc = <<>>
    /\ loc = <<>>
    /\ color \in StringsUpTo(MaxColorLen)
    /\ run = None

\* lines 417-456 for a run whose font has this color
BuildRun ==
    /\ run = None
    /\ run' = Some(paragraphOf([Text |-> "t", Font |-> Some([NoFont EXCEPT !.Color = color])]))
    /\ UNCHANGED <<docVars, seqVars, concVars, color>>

SpecRuns == InitRuns /\ [][BuildRun]_vars

\* the color with an optional leading '#' stripped, upper-cased
Normalized(c) == ToUpper(IF c # <<>> /\ Head(c) = "#" THEN Tail(c) ELSE c)

\* C7: a run has a solid fill exactly when its font color, after stripping
\* an optional leading '#' and upper-casing, is 6 hexadecimal characters, and
\* the fill is then that normalized string.
C7_FillIffHex6 ==
    run # None =>
        LET n == Normalized(color)
        IN run[1].SolidFill = IF Len(n) = 6 /\ \A i \in DOMAIN n : n[i] \in HexChars THEN Some(n) ELSE None

---------------------------------------------------------------------------
(* Concurrent AddShape calls.  Each call slot runs AddShape once; a step is *)
(* one access to state shared between calls (the worksheet descriptor, the *)
(* relationships, the drawing store, the content types) together with the  *)
(* local computation that follows it.                                      *)

Procs == 1..NumProcs

Running == "running"

Idle ==
    [sheet |-> "", cell |-> None, opts |-> None, drawingID |-> 0, target |-> None, drawingXML |-> None,
     rID |-> 0, content |-> <<>>, cNvPrID |-> 0, anchor |-> None, err |-> Running]

active(q) == pc[q] \notin {"idle", "done"}

\* lines 288-297: parseShapeOptions and workSheetReader
Begin(p, sheet, cell, d) ==
    /\ pc[p] = "idle"
    /\ serialized => \A q \in Procs \ {p} : active(q) => loc[q].sheet # sheet
    /\ pc' = [pc EXCEPT ![p] = "count"]
    /\ loc' = [loc EXCEPT ![p] = [Idle EXCEPT !.sheet = sheet, !.cell = cell,
                                              !.opts = Some(parseShapeOptions(Some(d)).opts)]]
    /\ UNCHANGED <<docVars, seqVars, serialized, runVars>>

\* lines 299-301
Count(p) ==
    /\ pc[p] = "count"
    /\ pc' = [pc EXCEPT ![p] = "branch"]
    /\ loc' = [loc EXCEPT ![p].drawingID = countDrawings + 1,
                          ![p].drawingXML = drawingXMLOf(countDrawings + 1),
                          ![p].target = relTargetOf(countDrawings + 1)]
    /\ UNCHANGED <<docVars, seqVars, serialized, runVars>>

\* lines 303-307
Branch(p) ==
    /\ pc[p] = "branch"
    /\ IF wsDrawing[loc[p].sheet] # 0
       THEN LET target == getSheetRelationshipsTargetByID(loc[p].sheet, wsDrawing[loc[p].sheet])
            IN /\ loc' = [loc EXCEPT ![p].target = target,
                                     ![p].drawingID = drawingIDOf(target),
                                     ![p].drawingXML = xlPathOf(target)]
               /\ pc' = [pc EXCEPT ![p] = "load"]
       ELSE /\ pc' = [pc EXCEPT ![p] = "rels"]
            /\ UNCHANGED loc
    /\ UNCHANGED <<docVars, seqVars, serialized, runVars>>

\* lines 310-312
AddRels(p) ==
    /\ pc[p] = "rels"
    /\ rels' = addRels(loc[p].sheet, "drawing", loc[p].target)
    /\ loc' = [loc EXCEPT ![p].rID = Len(rels[loc[p].sheet]) + 1]
    /\ pc' = [pc EXCEPT ![p] = "sheetDrawing"]
    /\ UNCHANGED <<wsDrawing, nameSpace, pkg, Drawings, contentTypes, seqVars, serialized, runVars>>

\* lines 313-314
AddSheetDrawing(p) ==
    /\ pc[p] = "sheetDrawing"
    /\ wsDrawing' = [wsDrawing EXCEPT ![loc[p].sheet] = loc[p].rID]
    /\ nameSpace' = nameSpace \cup {loc[p].sheet}
    /\ pc' = [pc EXCEPT ![p] = "load"]
    /\ UNCHANGED <<rels, pkg, Drawings, contentTypes, seqVars, serialized, loc, runVars>>

\* lines 325-337
Load(p) ==
    /\ pc[p] = "load"
    /\ LET c == CellNameToCoordinates(loc[p].cell)
           parsed == drawingParser(loc[p].drawingXML)
       IN IF c.err # Nil
          THEN /\ loc' = [loc EXCEPT ![p].err = c.err]
               /\ pc' = [pc EXCEPT ![p] = "done"]
          ELSE IF parsed.err # Nil
          THEN /\ loc' = [loc EXCEPT ![p].err = parsed.err]
               /\ pc' = [pc EXCEPT ![p] = "done"]
          ELSE /\ loc' = [loc EXCEPT ![p].content = parsed.content, ![p].cNvPrID = parsed.cNvPrID]
               /\ pc' = [pc EXCEPT ![p] = "commit"]
    /\ UNCHANGED <<docVars, seqVars, serialized, runVars>>

\* lines 338-464
Commit(p, fontOK) ==
    /\ pc[p] = "commit"
    /\ IF ~fontOK
       THEN /\ loc' = [loc EXCEPT ![p].err = ErrDefaultFont]
            /\ pc' = [pc EXCEPT ![p] = "done"]
            /\ UNCHANGED Drawings
       ELSE LET c == CellNameToCoordinates(loc[p].cell)
                o == loc[p].opts[1]
                pos == positionObjectPixels(loc[p].sheet, c.col, c.row, o.Format.OffsetX, o.Format.OffsetY,
                                            scaledWidth(o), scaledHeight(o))
                opts2 == withParagraph(o, defaultFontName)
                anchor == anchorOf(opts2, pos, loc[p].cNvPrID)
            IN /\ Drawings' = Store(loc[p].drawingXML, commit(loc[p].content, anchor))
               /\ loc' = [loc EXCEPT ![p].opts = Some(opts2), ![p].anchor = Some(anchor)]
               /\ pc' = [pc EXCEPT ![p] = "contentType"]
    /\ UNCHANGED <<wsDrawing, rels, nameSpace, pkg, contentTypes, seqVars, serialized, runVars>>

\* line 319
ContentType(p) ==
    /\ pc[p] = "contentType"
    /\ contentTypes' = contentTypes \cup {loc[p].drawingID}
    /\ loc' = [loc EXCEPT ![p].err = Nil]
    /\ pc' = [pc EXCEPT ![p] = "done"]
    /\ UNCHANGED <<wsDrawing, rels, nameSpace, pkg, Drawings, seqVars, serialized, runVars>>

InitConc ==
    /\ \E doc \in InitDocs : InitDoc(doc)
    /\ shape = None
    /\ calls = 0
    /\ lastCall = NoCall
    /\ firstSeen = [s \in Sheets |-> None]
    /\ added = [s \in Sheets |-> <<>>]
    /\ serialized \in BOOLEAN
    /\ pc = [p \in Procs |-> "idle"]
    /\ loc = [p \in Procs |-> Idle]
    /\ color = <<>>
    /\ run = None

NextConc ==
    \E p \in Procs :
        \/ \E sheet \in Sheets, cell \in Cells : Begin(p, sheet, cell, TextBox)
        \/ Count(p)
        \/ Branch(p)
        \/ AddRels(p)
        \/ AddSheetDrawing(p)
        \/ Load(p)
        \/ \E fontOK \in BOOLEAN : Commit(p, fontOK)
        \/ ContentType(p)

SpecConc == InitConc /\ [][NextConc]_vars

---------------------------------------------------------------------------
(* Properties of concurrent runs *)

started(p) == pc[p] # "idle"
succeeded(p) == pc[p] = "done" /\ loc[p].err = Nil
failed(p) == pc[p] = "done" /\ loc[p].err # Nil
\* the call has stored its anchor
stored(p) == loc[p].anchor # None
\* the anchors a part held before any call
initialLen(path) == IF path \in DOMAIN pkg THEN Len(pkg[path].anchors) ELSE 0
storedOn(path) == {q \in Procs : stored(q) /\ loc[q].drawingXML = path}

\* C4: when the calls target distinct sheets and none fails, the anchor of
\* every call that returned is in the part of its own sheet, that part is the
\* part of no other sheet, and the part holds every anchor stored into it.
C4_DistinctSheetsIndependent ==
    (/\ \A p, q \in Procs : (p # q /\ started(p) /\ started(q)) => loc[p].sheet # loc[q].sheet
     /\ \A p \in Procs : ~failed(p))
    => \A p \in Procs : succeeded(p) =>
          LET path == loc[p].drawingXML
          IN /\ sheetPart(loc[p].sheet) = path
             /\ \E i \in DOMAIN partOf(path) : partOf(path)[i] = loc[p].anchor[1]
             /\ \A t \in Sheets \ {loc[p].sheet} : wsDrawing[t] # 0 => sheetPart(t) # path
             /\ Len(partOf(path)) = initialLen(path) + Cardinality(storedOn(path))

\* the two hazards of unserialized calls on one part
lostUpdate(path) == Len(partOf(path)) < initialLen(path) + Cardinality(storedOn(path))
sharedIdentity(path) == \E p, q \in storedOn(path) : p # q /\ loc[p].cNvPrID = loc[q].cNvPrID

\* C5: when the caller serializes the calls of a sheet, and all calls are on
\* one sheet, every stored anchor is in the part and no two shapes of the
\* part share an identity; without serialization an update can be lost.
C5_SerializedNoLostUpdate ==
    (/\ serialized
     /\ \A p, q \in Procs : (started(p) /\ started(q)) => loc[p].sheet = loc[q].sheet)
    => \A p \in Procs : stored(p) =>
          /\ ~lostUpdate(loc[p].drawingXML)
          /\ ~sharedIdentity(loc[p].drawingXML)
          /\ \E i \in DOMAIN partOf(loc[p].drawingXML) : partOf(loc[p].drawingXML)[i] = loc[p].anchor[1]

\* two unserialized calls on one sheet both returned success, and the part
\* holds one new anchor only
C5_Witness ==
    /\ ~serialized
    /\ \E p, q \in Procs :
          /\ p # q /\ succeeded(p) /\ succeeded(q)
          /\ loc[p].sheet = loc[q].sheet
          /\ lostUpdate(loc[p].drawingXML)
          /\ sharedIdentity(loc[p].drawingXML)

====
